---- MODULE Spec2Model ----
(***************************************************************************)
(* A model of lib/templating.js of yo-utils: the text splice engine        *)
(* (rewrite, rewriteFile), the filename filter parser (filterFile), the    *)
(* filter gate (templateIsUsable) and the directory processor              *)
(* (processDirectory).                                                     *)
(*                                                                         *)
(* A JavaScript string is a sequence of one-character strings.  Array      *)
(* indices are 1-based here; the JavaScript -1 of "not found" is 0.        *)
(***************************************************************************)
EXTENDS Integers, Sequences, FiniteSets, TLC

VARIABLES
  file,        \* rewriteFile: the content of the file at fullPath
  orig,        \* history: the content of the file before the first rewriteFile
  prev,        \* history: the content of the file before the latest rewriteFile
  needle,      \* args.needle
  splicable,   \* args.splicable
  calls,       \* number of rewriteFile calls made with these args
  template,    \* filterFile: its argument
  filtered,    \* filterFile: the object it returned
  parsed,      \* whether filterFile has returned
  source,      \* processDirectory: its source argument
  destination, \* processDirectory: its destination argument
  selfName,    \* self.name, empty when the generator has none
  config,      \* self.config.get('filters'): tag -> boolean
  files,       \* what self.expandFiles returned
  idx,         \* the (1-based) index of the file the forEach is at
  invoked,     \* the calls of self.copy and self.template made, in order
  pc,          \* processDirectory: "run", "done" (returned) or "failed" (threw)
  error        \* what processDirectory threw to its caller, or "none"

varsRewrite == <<file, orig, prev, needle, splicable, calls>>
varsFilter == <<template, filtered, parsed>>
varsDir == <<source, destination, selfName, config, files, idx, invoked, pc, error>>
vars == <<varsRewrite, varsFilter, varsDir>>

NL == "\n"
SP == " "
TAB == "\t"
BSL == "\\"

----------------------------------------------------------------------------
(* Bounds of the model. *)

\* most lines of a haystack
MaxLines == 3
\* most lines of args.splicable
MaxSplice == 2
\* most rewriteFile calls with the same args
MaxRewrites == 2
\* most characters of a template path handed to filterFile alone
MaxPathLen == 7
\* most files self.expandFiles returns
MaxFiles == 2

----------------------------------------------------------------------------
(* String primitives of JavaScript. *)

\* the sequences over S of length lo..hi
SeqsOf(S, lo, hi) == UNION {[1..n -> S] : n \in lo..hi}

\* s.substring(i-1): the suffix of s from (1-based) position i
Tail_(s, i) == SubSeq(s, i, Len(s))

\* whether sub occurs in s at (1-based) position i
OccursAt(s, sub, i) ==
  /\ i >= 1
  /\ i + Len(sub) - 1 <= Len(s)
  /\ SubSeq(s, i, i + Len(sub) - 1) = sub

RECURSIVE IndexFrom(_, _, _)
\* the scan of String.prototype.indexOf from position i: 0 when there is none
IndexFrom(s, sub, i) ==
  IF i + Len(sub) - 1 > Len(s) THEN 0
  ELSE IF OccursAt(s, sub, i) THEN i
  ELSE IndexFrom(s, sub, i + 1)

\* s.indexOf(sub), 1-based, 0 for -1
indexOf(s, sub) == IndexFrom(s, sub, 1)

RECURSIVE split(_)
\* s.split('\n'): never empty, '' gives ['']
split(s) ==
  LET i == indexOf(s, <<NL>>) IN
  IF i = 0 THEN <<s>>
  ELSE <<SubSeq(s, 1, i - 1)>> \o split(Tail_(s, i + 1))

RECURSIVE join(_)
\* lines.join('\n')
join(lines) ==
  IF Len(lines) = 0 THEN <<>>
  ELSE IF Len(lines) = 1 THEN lines[1]
  ELSE lines[1] \o <<NL>> \o join(Tail(lines))

\* whether sub is a substring of s (the claims' word, not a scan)
Contains(s, sub) == \E i \in 1..(Len(s) + 1) : OccursAt(s, sub, i)

----------------------------------------------------------------------------
(* escapeRegExp and the RegExp the already-present check builds. *)

\* the characters of the class of escapeRegExp
RegExpSpecials ==
  {"-", "[", "]", "/", "{", "}", "(", ")", "*", "+", "?", ".", BSL, "^", "$", "|"}

\* an escape that leaves every character as it is
escapeRegExpNone(str) == str

RECURSIVE escapeRegExp(_)
\* str.replace(/[\-\[\]\/\{\}\(\)\*\+\?\.\\\^\$\|]/g, '\\$&')
escapeRegExp(str) ==
  IF Len(str) = 0 THEN <<>>
  ELSE (IF str[1] \in RegExpSpecials THEN <<BSL, str[1]>> ELSE <<str[1]>>)
       \o escapeRegExp(Tail(str))

\* the map callback of the check without its whitespace prefix
linePatternBare(line) == escapeRegExp(line)

\* the map callback of the check: '\\s*' + escapeRegExp(line)
linePattern(line) == <<BSL, "s", "*">> \o escapeRegExp(line)

\* args.splicable.map(...).join('\n'): the source text of the RegExp
regExpSource(spl) == join([i \in 1..Len(spl) |-> linePattern(spl[i])])

\* what \s matches among the characters of the model
WhiteSpace == {SP, TAB, NL}

RECURSIVE compile(_)
\* new RegExp(source): the atoms of the pattern, each with its star.  An atom
\* is \s, an escaped character, the dot, or a character standing for itself.
compile(src) ==
  IF Len(src) = 0 THEN <<>>
  ELSE
    LET esc  == src[1] = BSL /\ Len(src) >= 2
        n    == IF esc THEN 2 ELSE 1
        atom == IF esc THEN (IF src[2] = "s" THEN [k |-> "ws", c |-> ""]
                             ELSE [k |-> "lit", c |-> src[2]])
                ELSE IF src[1] = "." THEN [k |-> "any", c |-> ""]
                ELSE [k |-> "lit", c |-> src[1]]
        star == Len(src) > n /\ src[n + 1] = "*"
    IN <<[k |-> atom.k, c |-> atom.c, star |-> star]>>
       \o compile(Tail_(src, n + (IF star THEN 2 ELSE 1)))

\* whether one atom matches one character
atomMatches(a, ch) ==
  CASE a.k = "lit" -> ch = a.c
    [] a.k = "ws"  -> ch \in WhiteSpace
    [] a.k = "any" -> ch # NL

RECURSIVE matchAt(_, _, _, _)
\* whether the atoms from ti on match s from position si on (backtracking
\* over the length of every starred run)
matchAt(re, ti, s, si) ==
  IF ti > Len(re) THEN TRUE
  ELSE IF re[ti].star
    THEN \/ matchAt(re, ti + 1, s, si)
         \/ /\ si <= Len(s)
            /\ atomMatches(re[ti], s[si])
            /\ matchAt(re, ti, s, si + 1)
    ELSE /\ si <= Len(s)
         /\ atomMatches(re[ti], s[si])
         /\ matchAt(re, ti + 1, s, si + 1)

\* re.test(s): an unanchored match anywhere in s
test(re, s) == \E si \in 1..(Len(s) + 1) : matchAt(re, 1, s, si)

----------------------------------------------------------------------------
(* rewrite *)

RECURSIVE firstLineWith(_, _, _)
firstLineWith(lines, ndl, i) ==
  IF i > Len(lines) THEN 0
  ELSE IF indexOf(lines[i], ndl) # 0 THEN i
  ELSE firstLineWith(lines, ndl, i + 1)

\* a scan that stops at the first line holding the needle
otherwiseLineIndexFirst(lines, ndl) == firstLineWith(lines, ndl, 1)

RECURSIVE forEachLine(_, _, _, _)
\* lines.forEach: every line holding the needle overwrites the index
forEachLine(lines, ndl, i, found) ==
  IF i > Len(lines) THEN found
  ELSE forEachLine(lines, ndl, i + 1,
                   IF indexOf(lines[i], ndl) # 0 THEN i ELSE found)

\* a forEach that starts from index 0 in place of -1
otherwiseLineIndexFromZero(lines, ndl) == forEachLine(lines, ndl, 1, 1)

\* otherwiseLineIndex after the forEach (0 for -1)
otherwiseLineIndex(lines, ndl) == forEachLine(lines, ndl, 1, 0)

RECURSIVE countBlank(_, _)
countBlank(line, spaces) ==
  IF spaces < Len(line) /\ line[spaces + 1] \in {SP, TAB}
  THEN countBlank(line, spaces + 1)
  ELSE spaces

\* a count that takes a tab for a space
countSpacesOrTabs(line) == countBlank(line, 0)

RECURSIVE whileSpace(_, _)
\* while (line.charAt(spaces) === ' ') spaces += 1
whileSpace(line, spaces) ==
  IF spaces < Len(line) /\ line[spaces + 1] = SP
  THEN whileSpace(line, spaces + 1)
  ELSE spaces

\* spaces after the first while loop
countSpaces(line) == whileSpace(line, 0)

\* spaceStr after the second while loop
spaceStr(spaces) == [i \in 1..spaces |-> SP]

\* lines.splice(at, 0, item), at 0-based
splice(lines, at, item) ==
  SubSeq(lines, 1, at) \o <<item>> \o SubSeq(lines, at + 1, Len(lines))

\* function rewrite(args)
rewrite(args) ==
  LET re == compile(regExpSource(args.splicable)) IN
  IF test(re, args.haystack) THEN args.haystack
  ELSE
    LET lines == split(args.haystack)
        at    == otherwiseLineIndex(lines, args.needle)
    IN IF at = 0 THEN join(lines)
       ELSE
         LET str  == spaceStr(countSpaces(lines[at]))
             item == join([i \in 1..Len(args.splicable) |->
                             str \o args.splicable[i]])
         IN join(splice(lines, at, item))

----------------------------------------------------------------------------
(* filterFile *)

RECURSIVE closingParen(_, _)
\* [^)]+ from position j: the position of the first ')' at or after j, 0 when
\* there is none
closingParen(s, j) ==
  IF j > Len(s) THEN 0
  ELSE IF s[j] = ")" THEN j
  ELSE closingParen(s, j + 1)

RECURSIVE matchGroups(_, _)
\* template.match(/\(([^)]+)\)/g) scanning from position i: the matched
\* texts from left to right, none overlapping (the null of no match is the
\* empty array, which the guard on filterMatches treats alike)
matchGroups(s, i) ==
  IF i > Len(s) THEN <<>>
  ELSE LET j == closingParen(s, i + 1) IN
       IF s[i] = "(" /\ j > i + 1
       THEN <<SubSeq(s, i, j)>> \o matchGroups(s, j + 1)
       ELSE matchGroups(s, i + 1)

\* s.replace(sub, rep) with a string pattern: the first occurrence only
replaceFirst(s, sub, rep) ==
  LET i == indexOf(s, sub) IN
  IF i = 0 THEN s
  ELSE SubSeq(s, 1, i - 1) \o rep \o Tail_(s, i + Len(sub))

\* a tag that keeps its closing parenthesis
tagOfOpenOnly(filter) == replaceFirst(filter, <<"(">>, <<>>)

\* filter.replace('(', '').replace(')', '')
tagOf(filter) ==
  replaceFirst(replaceFirst(filter, <<"(">>, <<>>), <<")">>, <<>>)

RECURSIVE forEachFilter(_, _, _, _)
\* filterMatches.forEach: push the tag, cut the group out of template
forEachFilter(filterMatches, i, tmpl, filters) ==
  IF i > Len(filterMatches) THEN [name |-> tmpl, filters |-> filters]
  ELSE forEachFilter(filterMatches, i + 1,
                     replaceFirst(tmpl, filterMatches[i], <<>>),
                     Append(filters, tagOf(filterMatches[i])))

\* function filterFile(template)
filterFile(tmpl) == forEachFilter(matchGroups(tmpl, 1), 1, tmpl, <<>>)

----------------------------------------------------------------------------
(* templateIsUsable *)

\* the keys of the mapping whose value is truthy, as the for-in collects them
enabledFilters(filters) == {key \in DOMAIN filters : filters[key]}

RECURSIVE uniqueIn(_, _, _)
\* the values of array from position i on that are in others and not yet in
\* seen, each once, in order
uniqueIn(array, others, seen) ==
  IF Len(array) = 0 THEN seen
  ELSE uniqueIn(Tail(array), others,
                IF /\ array[1] \in others
                   /\ \A m \in 1..Len(seen) : seen[m] # array[1]
                THEN Append(seen, array[1]) ELSE seen)

\* self._.intersection(array, others) of lodash: the unique values of array
\* that others holds too
intersection(array, others) == uniqueIn(array, others, <<>>)

\* function templateIsUsable(self, filteredFile)
templateIsUsable(filters, filteredFile) ==
  LET matchedFilters == intersection(filteredFile.filters, enabledFilters(filters))
  IN ~(/\ Len(filteredFile.filters) # 0
       /\ Len(matchedFilters) # Len(filteredFile.filters))

----------------------------------------------------------------------------
(* The path module of Node (POSIX), on the paths of the model. *)

RECURSIVE segmentsOf(_)
\* p.split('/')
segmentsOf(p) ==
  LET i == indexOf(p, <<"/">>) IN
  IF i = 0 THEN <<p>>
  ELSE <<SubSeq(p, 1, i - 1)>> \o segmentsOf(Tail_(p, i + 1))

RECURSIVE normalizeArray(_, _, _)
\* the segments with '' and '.' dropped and '..' resolved
normalizeArray(segs, acc, isAbs) ==
  IF Len(segs) = 0 THEN acc
  ELSE LET sg == segs[1] IN
       normalizeArray(Tail(segs),
         IF sg = <<>> \/ sg = <<".">> THEN acc
         ELSE IF sg = <<".", ".">>
           THEN (IF Len(acc) > 0 /\ acc[Len(acc)] # <<".", ".">>
                   THEN SubSeq(acc, 1, Len(acc) - 1)
                 ELSE IF isAbs THEN acc
                 ELSE Append(acc, sg))
         ELSE Append(acc, sg),
         isAbs)

RECURSIVE joinSegments(_)
\* segs.join('/')
joinSegments(segs) ==
  IF Len(segs) = 0 THEN <<>>
  ELSE IF Len(segs) = 1 THEN segs[1]
  ELSE segs[1] \o <<"/">> \o joinSegments(Tail(segs))

\* self.isPathAbsolute(p)
isPathAbsolute(p) == Len(p) > 0 /\ p[1] = "/"

\* path.normalize(p)
normalize(p) ==
  LET isAbs    == isPathAbsolute(p)
      trailing == Len(p) > 0 /\ p[Len(p)] = "/"
      body     == joinSegments(normalizeArray(segmentsOf(p), <<>>, isAbs))
      dotted   == IF Len(body) = 0 /\ ~isAbs THEN <<".">> ELSE body
      slashed  == IF Len(dotted) > 0 /\ trailing THEN dotted \o <<"/">>
                  ELSE dotted
  IN IF isAbs THEN <<"/">> \o slashed ELSE slashed

\* path.join(a, b): the non-empty arguments joined by '/', normalized
pathJoin(a, b) ==
  IF Len(a) = 0 /\ Len(b) = 0 THEN <<".">>
  ELSE IF Len(a) = 0 THEN normalize(b)
  ELSE IF Len(b) = 0 THEN normalize(a)
  ELSE normalize(a \o <<"/">> \o b)

RECURSIVE trimSlashes(_)
\* p without its trailing slashes
trimSlashes(p) ==
  IF Len(p) > 0 /\ p[Len(p)] = "/" THEN trimSlashes(SubSeq(p, 1, Len(p) - 1))
  ELSE p

RECURSIVE lastSlash(_, _)
\* the position of the last '/' of p at or before i, 0 when there is none
lastSlash(p, i) ==
  IF i = 0 THEN 0
  ELSE IF p[i] = "/" THEN i
  ELSE lastSlash(p, i - 1)

\* path.basename(p)
basename(p) ==
  LET t == trimSlashes(p) IN Tail_(t, lastSlash(t, Len(t)) + 1)

\* path.dirname(p)
dirname(p) ==
  LET t == trimSlashes(p)
      i == lastSlash(t, Len(t))
  IN IF Len(t) = 0 THEN (IF Len(p) = 0 THEN <<".">> ELSE <<"/">>)
     ELSE IF i = 0 THEN <<".">>
     ELSE IF i = 1 THEN <<"/">>
     ELSE SubSeq(t, 1, i - 1)

----------------------------------------------------------------------------
(* processDirectory *)

\* self.sourceRoot()
sourceRoot == <<"/", "s">>

\* root: source when absolute, else source under self.sourceRoot()
rootOf(src) == IF isPathAbsolute(src) THEN src ELSE pathJoin(sourceRoot, src)

\* the text of a tag, tags being single letters in the model
TagText(t) == <<t>>

\* self.config.get('filters') keyed by the text of the tag
filtersOf(cfg) ==
  [tag \in {TagText(t) : t \in DOMAIN cfg} |->
     cfg[CHOOSE t \in DOMAIN cfg : TagText(t) = tag]]

\* dest after the check for the hidden marker '_'
stripHidden(dest) ==
  LET base == basename(dest) IN
  IF indexOf(base, <<"_">>) = 1 THEN pathJoin(dirname(dest), Tail(base))
  ELSE dest

\* whether the check for the force-copy marker '!' fires on dest
isForceCopy(dest) == indexOf(basename(dest), <<"!">>) = 1

\* dest after the check for the force-copy marker '!'
stripForceCopy(dest) ==
  IF isForceCopy(dest) THEN pathJoin(dirname(dest), Tail(basename(dest)))
  ELSE dest

\* the forEach callback up to the dispatch: filteredFile, src, dest, copy and
\* the verdict of templateIsUsable
fileJob(f) ==
  LET parsedFile   == filterFile(f)
      filteredFile == IF Len(selfName) > 0
                      THEN [parsedFile EXCEPT
                              !.name = replaceFirst(@, <<"n", "a", "m", "e">>, selfName)]
                      ELSE parsedFile
      dest0 == pathJoin(destination, filteredFile.name)
      dest1 == stripHidden(dest0)
  IN [ src    |-> pathJoin(rootOf(source), f),
       dest   |-> stripForceCopy(dest1),
       copy   |-> isForceCopy(dest1),
       usable |-> templateIsUsable(filtersOf(config), filteredFile),
       name   |-> filteredFile.name,
       filters |-> filteredFile.filters ]

\* a dispatch that always renders
serviceOfTemplateOnly(copy) == "template"

\* if (copy) self.copy(src, dest) else self.template(src, dest)
serviceOf(copy) == IF copy THEN "copy" ELSE "template"

\* a forEach that steps over every other element
nextIndexSkipping(i) == i + 2

\* the forEach moves on to the next element
nextIndex(i) == i + 1

----------------------------------------------------------------------------
(* What each part's variables are while another part runs. *)

\* the variables of rewriteFile when it is not run
IdleRewrite ==
  /\ file = <<>>
  /\ orig = <<>>
  /\ prev = <<>>
  /\ needle = <<>>
  /\ splicable = <<>>
  /\ calls = 0

\* the variables of filterFile when it is not run
IdleFilter ==
  /\ template = <<>>
  /\ filtered = [name |-> <<>>, filters |-> <<>>]
  /\ parsed = FALSE

\* the variables of processDirectory when it is not run
IdleDir ==
  /\ source = <<>>
  /\ destination = <<>>
  /\ selfName = <<>>
  /\ config = <<>>
  /\ files = <<>>
  /\ idx = 1
  /\ invoked = <<>>
  /\ pc = "done"
  /\ error = "none"

----------------------------------------------------------------------------
(* The text inputs of the splice engine. *)

\* lines a haystack is made of: an empty one, marker lines indented by two
\* spaces, by a tab and not at all, and a line without the marker
HayLines ==
  { <<>>, <<SP, SP, "m">>, <<TAB, "a", "m">>, <<"m", "a">>, <<SP, "a">> }

\* lines a splicable is made of: a plain one, one of a RegExp special
\* character, and one with leading whitespace that holds the marker
SpliceLines == { <<"a">>, <<".">>, <<SP, "m">> }

\* markers
Needles == { <<"m">> }

Haystacks == {join(ls) : ls \in SeqsOf(HayLines, 1, MaxLines)}

Splicables == SeqsOf(SpliceLines, 1, MaxSplice)

----------------------------------------------------------------------------
(* rewriteFile on one file, called repeatedly with the same args. *)

InitRewrite ==
  /\ IdleFilter
  /\ IdleDir
  /\ file \in Haystacks
  /\ orig = file
  /\ prev = file
  /\ needle \in Needles
  /\ splicable \in Splicables
  /\ calls = 0

\* function rewriteFile(args): read, rewrite, write back
rewriteFile ==
  /\ calls < MaxRewrites
  /\ file' = rewrite([haystack |-> file, needle |-> needle,
                      splicable |-> splicable])
  /\ prev' = file
  /\ calls' = calls + 1
  /\ UNCHANGED <<orig, needle, splicable>>
  /\ UNCHANGED <<varsFilter, varsDir>>

NextRewrite == rewriteFile

SpecRewrite == InitRewrite /\ [][NextRewrite]_vars

----------------------------------------------------------------------------
(* Vocabulary of the claims about rewrite, stated on the text and its      *)
(* lines without the code's scans.                                         *)

\* whether s ends with sub
EndsWith(s, sub) == OccursAt(s, sub, Len(s) - Len(sub) + 1)

\* whether the line is empty or all blanks
IsBlank(line) == \A i \in 1..Len(line) : line[i] \in {SP, TAB}

\* whether the line is sub after leading blanks only
BlanksThen(line, sub) ==
  \E w \in 0..Len(line) :
    IsBlank(SubSeq(line, 1, w)) /\ Tail_(line, w + 1) = sub

\* whether the line starts, after leading blanks only, with sub
BlanksThenStarts(line, sub) ==
  \E w \in 0..Len(line) :
    IsBlank(SubSeq(line, 1, w)) /\ OccursAt(line, sub, w + 1)

\* the (1-based) numbers of the lines of text that contain the marker
MarkerLines(text) ==
  LET L == split(text) IN {i \in 1..Len(L) : Contains(L[i], needle)}

\* the last of them
LastMarkerLine(text) ==
  LET M == MarkerLines(text) IN CHOOSE i \in M : \A j \in M : j <= i

\* the number N of a line that begins with exactly N spaces
LeadingSpaces(line) ==
  CHOOSE n \in 0..Len(line) :
    /\ \A i \in 1..n : line[i] = SP
    /\ n = Len(line) \/ line[n + 1] # SP

\* the splicable lines are consecutive whole lines of text, each after
\* leading blanks only
PresentAsLines(text) ==
  LET L == split(text)
      n == Len(splicable)
  IN \E i \in 1..(Len(L) - n + 1) :
       \A k \in 1..n : BlanksThen(L[i + k - 1], splicable[k])

RECURSIVE PlacedFrom(_, _, _)
\* splicable[k..] sit on line i and on later lines of L, blank lines only
\* between them: a middle one is its line after leading blanks, the last one
\* starts its line after leading blanks
PlacedFrom(L, k, i) ==
  IF k = Len(splicable) THEN BlanksThenStarts(L[i], splicable[k])
  ELSE /\ BlanksThen(L[i], splicable[k])
       /\ \E j \in (i + 1)..Len(L) :
            /\ \A b \in (i + 1)..(j - 1) : IsBlank(L[b])
            /\ PlacedFrom(L, k + 1, j)

\* what the already-present check accepts: the first splicable line ends a
\* line (a single one occurs anywhere in a line), the others follow as in
\* PlacedFrom
PresentAsMatch(text) ==
  LET L == split(text) IN
  IF Len(splicable) = 1 THEN \E i \in 1..Len(L) : Contains(L[i], splicable[1])
  ELSE \E i \in 1..Len(L) :
         /\ EndsWith(L[i], splicable[1])
         /\ \E j \in (i + 1)..Len(L) :
              /\ \A b \in (i + 1)..(j - 1) : IsBlank(L[b])
              /\ PlacedFrom(L, 2, j)

\* the latest rewrite had a marker line and no block present: it inserts
Inserts == calls >= 1 /\ MarkerLines(prev) # {} /\ ~PresentAsMatch(prev)

----------------------------------------------------------------------------
(* Claims about rewrite, checked under SpecRewrite. *)

\* C1: rewrite is idempotent: a second rewriteFile with the same needle and
\* splicable leaves the file as the first one wrote it, whether or not the
\* first one inserted.
C1_Idempotent == calls >= 2 => file = prev

C1_Witness == calls = 2 /\ prev # orig /\ Len(splicable) = 2 /\ file = prev

\* C2: when rewrite inserts, the output is the haystack lines up to and
\* including the last marker line, then the splicable lines in order, then
\* the remaining haystack lines, none dropped, changed or reordered.
C2_InsertAfterLastMarker ==
  Inserts =>
    LET L   == split(prev)
        out == split(file)
        k   == LastMarkerLine(prev)
        n   == Len(splicable)
    IN /\ Len(out) = Len(L) + n
       /\ SubSeq(out, 1, k) = SubSeq(L, 1, k)
       /\ \A j \in 1..n : \E w \in 0..Len(out[k + j]) :
            out[k + j] = [i \in 1..w |-> SP] \o splicable[j]
       /\ SubSeq(out, k + n + 1, Len(out)) = SubSeq(L, k + 1, Len(L))

C2_Witness ==
  /\ Inserts
  /\ Cardinality(MarkerLines(prev)) >= 2
  /\ LastMarkerLine(prev) < Len(split(prev))
  /\ file # prev

\* C3: when rewrite inserts after a marker line that begins with exactly N
\* spaces (tabs not counted), every inserted line is N spaces followed by
\* the splicable line verbatim.
C3_Indentation ==
  Inserts =>
    LET L   == split(prev)
        out == split(file)
        k   == LastMarkerLine(prev)
        N   == LeadingSpaces(L[k])
    IN \A j \in 1..Len(splicable) :
         /\ k + j <= Len(out)
         /\ out[k + j] = [i \in 1..N |-> SP] \o splicable[j]

C3_Witness ==
  /\ Inserts
  /\ LeadingSpaces(split(prev)[LastMarkerLine(prev)]) = 2
  /\ \E j \in 1..Len(splicable) : splicable[j][1] = SP
  /\ file # prev

C3_WitnessTab ==
  /\ Inserts
  /\ split(prev)[LastMarkerLine(prev)][1] = TAB
  /\ file # prev

\* C4 as claimed: with a marker line in the haystack, rewrite returns it
\* unchanged exactly when the splicable lines are consecutive whole lines of
\* it, each after leading whitespace only.
C4_UnchangedIffPresentAsLines ==
  (calls >= 1 /\ MarkerLines(prev) # {}) =>
    ((file = prev) <=> PresentAsLines(prev))

\* C4 amended: with a marker line in the haystack, rewrite returns it
\* unchanged exactly when the RegExp of the check matches somewhere in it:
\* the first splicable line ends a line (a single splicable line occurs
\* anywhere in a line), every later one follows on a later line after leading
\* whitespace only, only blank lines lying between, and the last one may be
\* followed by more text on its line; in every other case the block is
\* inserted.
C4_UnchangedIffPresentAsMatch ==
  (calls >= 1 /\ MarkerLines(prev) # {}) =>
    ((file = prev) <=> PresentAsMatch(prev))

C4_Witness ==
  /\ calls = 1
  /\ MarkerLines(prev) # {}
  /\ PresentAsMatch(prev)
  /\ ~PresentAsLines(prev)
  /\ file = prev

C4_WitnessInserted ==
  calls = 1 /\ MarkerLines(prev) # {} /\ ~PresentAsMatch(prev) /\ file # prev

\* C5: if no line of the haystack contains the marker, rewrite returns the
\* haystack character for character, for every splicable.
C5_NoMarkerNoOp == (calls >= 1 /\ MarkerLines(prev) = {}) => file = prev

C5_Witness ==
  /\ calls = 1
  /\ MarkerLines(prev) = {}
  /\ ~PresentAsMatch(prev)
  /\ Len(prev) > 1
  /\ prev[Len(prev)] = NL
  /\ file = prev

----------------------------------------------------------------------------
(* filterFile on one template path. *)

\* characters of a template path: the parentheses and two tag letters
PathChars == {"(", ")", "a", "b"}

TemplatePaths == SeqsOf(PathChars, 0, MaxPathLen)

InitFilter ==
  /\ IdleRewrite
  /\ IdleDir
  /\ template \in TemplatePaths
  /\ filtered = [name |-> <<>>, filters |-> <<>>]
  /\ parsed = FALSE

\* a call of filterFile(template)
filterFileCall ==
  /\ ~parsed
  /\ filtered' = filterFile(template)
  /\ parsed' = TRUE
  /\ UNCHANGED template
  /\ UNCHANGED <<varsRewrite, varsDir>>

NextFilter == filterFileCall

SpecFilter == InitFilter /\ [][NextFilter]_vars

----------------------------------------------------------------------------
(* Vocabulary of the claim about filterFile: the groups by their places.   *)

\* position i of s opens a group that closes at j: '(' at i, ')' at j, at
\* least one character and no ')' between them
GroupAt(s, i, j) ==
  /\ s[i] = "("
  /\ s[j] = ")"
  /\ j > i + 1
  /\ \A m \in (i + 1)..(j - 1) : s[m] # ")"

RECURSIVE GroupSpans(_, _)
\* the groups of s from position i on, leftmost first and not overlapping,
\* each as <<first, last>>
GroupSpans(s, i) ==
  IF i > Len(s) THEN <<>>
  ELSE IF \E j \in (i + 2)..Len(s) : GroupAt(s, i, j)
       THEN LET j == CHOOSE m \in (i + 2)..Len(s) : GroupAt(s, i, m)
            IN <<<<i, j>>>> \o GroupSpans(s, j + 1)
       ELSE GroupSpans(s, i + 1)

\* the characters of s that lie in no group, in order
OutsideGroups(s) ==
  LET G == GroupSpans(s, 1)
      keep(m) == \A g \in 1..Len(G) : m < G[g][1] \/ m > G[g][2]
      F[m \in 0..Len(s)] ==
        IF m = 0 THEN <<>>
        ELSE IF keep(m) THEN Append(F[m - 1], s[m]) ELSE F[m - 1]
  IN F[Len(s)]

\* the inner texts of the groups of s, in order
InnerTexts(s) ==
  LET G == GroupSpans(s, 1)
  IN [g \in 1..Len(G) |-> SubSeq(s, G[g][1] + 1, G[g][2] - 1)]

----------------------------------------------------------------------------
(* Claim about filterFile, checked under SpecFilter. *)

\* C7: filterFile returns as filters the inner text of every parenthesized
\* group of the path, left to right with duplicates kept, and as name the
\* path with exactly those groups removed where they stood; the name holds
\* no parenthesized group any more.
C7_FilterFile ==
  parsed =>
    /\ filtered.filters = InnerTexts(template)
    /\ filtered.name = OutsideGroups(template)
    /\ GroupSpans(filtered.name, 1) = <<>>

C7_Witness ==
  /\ parsed
  /\ Len(filtered.filters) = 2
  /\ filtered.filters[1] = <<"a">>
  /\ filtered.filters[2] = <<"a">>
  /\ Len(filtered.name) >= 1
  /\ filtered.name # template

C7_WitnessNested ==
  /\ parsed
  /\ Len(filtered.filters) = 1
  /\ Contains(filtered.filters[1], <<"(">>)
  /\ Contains(filtered.name, <<"(", ")">>)
----------------------------------------------------------------------------
(* processDirectory on one template tree. *)

\* the template files of the tree: both markers in either order, a file
\* named '_' in a directory named '!d', files with one tag, a repeated tag
\* and two tags, and a hidden file with the name placeholder
FileSet ==
  { <<"_", "!", "x">>,
    <<"!", "_", "x">>,
    <<"!", "d", "/", "_">>,
    <<"x", "(", "a", ")">>,
    <<"(", "a", ")", "(", "a", ")", "x">>,
    <<"(", "a", ")", "(", "b", ")", "x">>,
    <<"_", "n", "a", "m", "e">> }

\* what self.expandFiles may return: distinct files in any order
FileLists ==
  {fs \in SeqsOf(FileSet, 0, MaxFiles) :
     \A i, j \in 1..Len(fs) : i # j => fs[i] # fs[j]}

\* values of self.config.get('filters')
Configs ==
  { [t \in {"a"} |-> TRUE], [t \in {"a"} |-> FALSE], [t \in {"a", "b"} |-> TRUE] }

\* what a failing self.copy or self.template throws
Errors == {"EACCES", "ENOSPC"}

Init ==
  /\ IdleRewrite
  /\ IdleFilter
  /\ source \in { <<"/", "t">>, <<"t">> }
  /\ destination \in { <<"o">>, <<"_", "o">> }
  /\ selfName \in { <<>>, <<"p">> }
  /\ config \in Configs
  /\ files \in FileLists
  /\ idx = 1
  /\ invoked = <<>>
  /\ pc = "run"
  /\ error = "none"

\* the job of the file the forEach is at
job == fileJob(files[idx])

\* the call the callback makes for a usable file
callOf(j) == [svc |-> serviceOf(j.copy), src |-> j.src, dest |-> j.dest]

\* the callback for a usable file whose service call returns
dispatchFile ==
  /\ pc = "run"
  /\ idx <= Len(files)
  /\ job.usable
  /\ invoked' = Append(invoked, callOf(job))
  /\ idx' = nextIndex(idx)
  /\ UNCHANGED <<source, destination, selfName, config, files, pc, error>>
  /\ UNCHANGED <<varsRewrite, varsFilter>>

\* the callback for a file that is not usable: nothing is called
skipFile ==
  /\ pc = "run"
  /\ idx <= Len(files)
  /\ ~job.usable
  /\ idx' = nextIndex(idx)
  /\ UNCHANGED <<source, destination, selfName, config, files, invoked, pc, error>>
  /\ UNCHANGED <<varsRewrite, varsFilter>>

\* the callback for a usable file whose service call throws: the exception
\* leaves the forEach and processDirectory
serviceThrows ==
  /\ pc = "run"
  /\ idx <= Len(files)
  /\ job.usable
  /\ \E e \in Errors :
       /\ invoked' = Append(invoked, callOf(job))
       /\ error' = e
       /\ pc' = "failed"
  /\ UNCHANGED <<source, destination, selfName, config, files, idx>>
  /\ UNCHANGED <<varsRewrite, varsFilter>>

\* the forEach is through: processDirectory returns
return ==
  /\ pc = "run"
  /\ idx > Len(files)
  /\ pc' = "done"
  /\ UNCHANGED <<source, destination, selfName, config, files, idx, invoked, error>>
  /\ UNCHANGED <<varsRewrite, varsFilter>>

Next == dispatchFile \/ skipFile \/ serviceThrows \/ return

Spec == Init /\ [][Next]_vars
----------------------------------------------------------------------------
(* Vocabulary of the claims about processDirectory. *)

\* the callback of file i has been entered: it returned, or it is the one
\* that threw
Entered(i) == i < idx \/ (pc = "failed" /\ i = idx)

\* every tag in the parentheses of path f is a key of the filters mapping
\* with a truthy value
AllTagsEnabled(f) ==
  LET tags == InnerTexts(f) IN
  \A m \in 1..Len(tags) :
    \E t \in DOMAIN config : TagText(t) = tags[m] /\ config[t]

\* the text of p before its last '/'
DirPart(p) ==
  LET S == {i \in 1..Len(p) : p[i] = "/"}
  IN SubSeq(p, 1, (CHOOSE i \in S : \A k \in S : k <= i) - 1)

\* the text of p after its last '/'
BasePart(p) ==
  LET S == {i \in 1..Len(p) : p[i] = "/"}
  IN Tail_(p, (CHOOSE i \in S : \A k \in S : k <= i) + 1)

\* s without its first character when that is ch
Unprefixed(s, ch) == IF Len(s) > 0 /\ s[1] = ch THEN Tail(s) ELSE s

\* the base name of destination/name after the check for '_'
BaseAfterHidden(nm) == Unprefixed(BasePart(destination \o <<"/">> \o nm), "_")

\* whether a '!' is removed from that base name
BangRemoved(nm) == Len(BaseAfterHidden(nm)) > 0 /\ BaseAfterHidden(nm)[1] = "!"

\* call m is made as C9 says for the file of name nm: the directory portion
\* of destination/name kept, '_' and then '!' taken off the base name, copy
\* exactly when a '!' was taken off
DestinationAsClaimed(call, nm) ==
  /\ call.dest = DirPart(destination \o <<"/">> \o nm) \o <<"/">>
                   \o Unprefixed(BaseAfterHidden(nm), "!")
  /\ (call.svc = "copy") <=> BangRemoved(nm)

RECURSIVE UsableSrcs(_)
\* the src of the files of fs that templateIsUsable accepts, in order
UsableSrcs(fs) ==
  IF Len(fs) = 0 THEN <<>>
  ELSE LET j == fileJob(fs[1]) IN
       (IF j.usable THEN <<j.src>> ELSE <<>>) \o UsableSrcs(Tail(fs))

----------------------------------------------------------------------------
(* Claims about processDirectory, checked under Spec. *)

\* C6: templateIsUsable returns true if and only if every tag in the file's
\* filter list is a key of the filters mapping with a truthy value; a
\* repeated tag counts as one.
C6_UsableIffAllTagsEnabled ==
  \A i \in 1..Len(files) :
    i < idx => (fileJob(files[i]).usable <=> AllTagsEnabled(files[i]))

\* A companion of C6, for files without a repeated tag: the gate is exact for
\* every file whose tags are pairwise distinct.
C6_ExactWithoutRepeats ==
  \A i \in 1..Len(files) :
    LET tags == InnerTexts(files[i]) IN
    (i < idx /\ \A m, n \in 1..Len(tags) : m # n => tags[m] # tags[n])
      => (fileJob(files[i]).usable <=> AllTagsEnabled(files[i]))

\* C8: for every enumerated file whose callback ran: if usable, exactly one
\* service was invoked for it exactly once with (src, dest), copy when the
\* force-copy flag was set and template otherwise; if not usable, neither
\* was invoked and no error was raised.  Files not reached have no call.
C8_OneServiceOncePerUsableFile ==
  \A i \in 1..Len(files) :
    LET j == fileJob(files[i]) IN
    /\ (Entered(i) /\ j.usable) =>
         /\ Cardinality({m \in 1..Len(invoked) : invoked[m].src = j.src}) = 1
         /\ \E m \in 1..Len(invoked) :
              invoked[m] = [svc  |-> IF j.copy THEN "copy" ELSE "template",
                            src  |-> j.src,
                            dest |-> j.dest]
    /\ (Entered(i) /\ ~j.usable) =>
         /\ \A m \in 1..Len(invoked) : invoked[m].src # j.src
         /\ i < idx
    /\ ~Entered(i) => \A m \in 1..Len(invoked) : invoked[m].src # j.src

C8_Witness ==
  /\ pc = "done"
  /\ Len(files) = 2
  /\ \E i \in 1..2 : fileJob(files[i]).usable /\ fileJob(files[i]).copy
  /\ \E i \in 1..2 : ~fileJob(files[i]).usable
  /\ Len(invoked) = 1
  /\ invoked[1].svc = "copy"

C8_WitnessTemplate ==
  pc = "done" /\ Len(invoked) = 2 /\ invoked[1].svc = "template"

\* C9: each destination keeps the directory portion of destination/name and
\* has at most one leading '_' and then at most one leading '!' taken off
\* the base name only, the copy flag set exactly when a '!' was taken off.
C9_StripsBaseNameOnly ==
  \A i \in 1..Len(files) : \A m \in 1..Len(invoked) :
    invoked[m].src = fileJob(files[i]).src
      => DestinationAsClaimed(invoked[m], fileJob(files[i]).name)

\* A companion of C9, for base names that are not a marker alone:
\* the destination is as claimed whenever something is left of the base name.
C9_HoldsWhenBaseNameRemains ==
  \A i \in 1..Len(files) : \A m \in 1..Len(invoked) :
    LET nm == fileJob(files[i]).name IN
    (/\ invoked[m].src = fileJob(files[i]).src
     /\ Unprefixed(BaseAfterHidden(nm), "!") # <<>>)
      => DestinationAsClaimed(invoked[m], nm)

\* C10: the calls made are those of the usable files in enumeration order,
\* one at a time; when a call fails its error reaches the caller, the failing
\* call is the last one made, and the earlier ones stand as they were.
C10_InOrderFailStop ==
  /\ idx <= Len(files) + 1
  /\ [m \in 1..Len(invoked) |-> invoked[m].src]
       = UsableSrcs(SubSeq(files, 1, IF pc = "failed" THEN idx ELSE idx - 1))
  /\ pc = "failed" =>
       /\ error \in Errors
       /\ idx <= Len(files)
       /\ fileJob(files[idx]).usable
  /\ pc # "failed" => error = "none"
  /\ pc = "done" => idx = Len(files) + 1

C10_Witness ==
  /\ pc = "failed"
  /\ Len(files) = 2
  /\ idx = 1
  /\ fileJob(files[2]).usable
  /\ Len(invoked) = 1
  /\ error = "ENOSPC"

C10_WitnessOrder ==
  pc = "done" /\ Len(invoked) = 2 /\ invoked[1].src # invoked[2].src

====
